---- MODULE Spec2Model ----
(***************************************************************************)
(* A model of Check_30kaUser_bot.py: the text parser, the name normalizer, *)
(* the roster matcher, the step-by-step intake and the join-request        *)
(* handler, with the two global collections verified_users and user_states.*)
(*                                                                         *)
(* A text is a sequence of characters, each character a one-element        *)
(* string.  The characters that TLA+ strings cannot hold are named:        *)
(*   "ye" and "yo"  the Cyrillic letter pair folded by normalize_fio,      *)
(*   "YO"           the capital of "yo",                                   *)
(*   "sup2"         SUPERSCRIPT TWO: str.isdigit() is True for it and      *)
(*                  int() raises ValueError on it.                         *)
(* None and the empty string are both the empty sequence: the code only    *)
(* ever tests them with "not x".                                           *)
(***************************************************************************)
EXTENDS Integers, Sequences, FiniteSets, TLC

\* ------------------------------------------------------------------ text

None == <<>>

WhiteSpace == {" ", "\n"}

AsciiDigits == {"0", "1", "2", "3", "4", "5", "6", "7", "8", "9"}

\* the characters str.isdigit() accepts
DigitChars == AsciiDigits \cup {"sup2"}

LowerLetters == {"a", "b", "c", "d", "e", "f", "g", "h", "i", "l", "n", "o",
                 "r", "s", "t", "x", "y", "ye", "yo"}

UpperLetters == {"A", "B", "C", "D", "F", "S", "Y", "YO"}

\* the characters str.isalpha() accepts
AlphaChars == LowerLetters \cup UpperLetters

\* str.lower(), one character
LowerChar(c) ==
    CASE c = "A" -> "a"
      [] c = "B" -> "b"
      [] c = "C" -> "c"
      [] c = "D" -> "d"
      [] c = "F" -> "f"
      [] c = "S" -> "s"
      [] c = "Y" -> "y"
      [] c = "YO" -> "yo"
      [] OTHER -> c

\* str.lower()
lower(s) == [i \in 1..Len(s) |-> LowerChar(s[i])]

\* str.replace('yo', 'ye')
replace_yo(s) == [i \in 1..Len(s) |-> IF s[i] = "yo" THEN "ye" ELSE s[i]]

RECURSIVE lstrip(_)
lstrip(s) ==
    IF s # <<>> /\ Head(s) \in WhiteSpace THEN lstrip(Tail(s)) ELSE s

RECURSIVE rstrip(_)
rstrip(s) ==
    IF s # <<>> /\ s[Len(s)] \in WhiteSpace
    THEN rstrip(SubSeq(s, 1, Len(s) - 1))
    ELSE s

\* str.strip()
strip(s) == rstrip(lstrip(s))

RECURSIVE splitAcc(_, _, _)
splitAcc(s, cur, out) ==
    IF s = <<>>
    THEN IF cur = <<>> THEN out ELSE Append(out, cur)
    ELSE IF Head(s) \in WhiteSpace
         THEN splitAcc(Tail(s), <<>>,
                       IF cur = <<>> THEN out ELSE Append(out, cur))
         ELSE splitAcc(Tail(s), Append(cur, Head(s)), out)

\* str.split(): the maximal runs of non-whitespace characters
split(s) == splitAcc(s, <<>>, <<>>)

RECURSIVE splitSepAcc(_, _, _, _)
splitSepAcc(s, sep, cur, out) ==
    IF s = <<>>
    THEN Append(out, cur)
    ELSE IF Head(s) = sep
         THEN splitSepAcc(Tail(s), sep, <<>>, Append(out, cur))
         ELSE splitSepAcc(Tail(s), sep, Append(cur, Head(s)), out)

\* str.split(sep): every piece between separators, empty pieces kept
split_sep(s, sep) == splitSepAcc(s, sep, <<>>, <<>>)

\* the parts joined with nothing between them
RECURSIVE join_no_blank(_)
join_no_blank(parts) ==
    IF parts = <<>> THEN <<>> ELSE parts[1] \o join_no_blank(Tail(parts))

\* ' '.join(parts)
RECURSIVE join(_)
join(parts) ==
    IF parts = <<>> THEN <<>>
    ELSE IF Len(parts) = 1 THEN parts[1]
    ELSE parts[1] \o <<" ">> \o join(Tail(parts))

\* str.isdigit()
isdigit(s) == s # <<>> /\ \A i \in 1..Len(s) : s[i] \in DigitChars

\* str.isalpha()
isalpha(s) == s # <<>> /\ \A i \in 1..Len(s) : s[i] \in AlphaChars

\* int(s) raises ValueError: the texts of the model hold no sign, no
\* underscore and no inner blank, so int() succeeds exactly on ASCII digits
int_raises(s) == s = <<>> \/ \E i \in 1..Len(s) : s[i] \notin AsciiDigits

DigitValue(c) ==
    CASE c = "0" -> 0 [] c = "1" -> 1 [] c = "2" -> 2 [] c = "3" -> 3
      [] c = "4" -> 4 [] c = "5" -> 5 [] c = "6" -> 6 [] c = "7" -> 7
      [] c = "8" -> 8 [] c = "9" -> 9

RECURSIVE intAcc(_, _)
intAcc(s, acc) ==
    IF s = <<>> THEN acc ELSE intAcc(Tail(s), 10 * acc + DigitValue(Head(s)))

\* int(s), for a string of ASCII digits
int(s) == intAcc(s, 0)

\* the index of the first sep in s, 0 when there is none
RECURSIVE findFrom(_, _, _)
findFrom(s, sep, i) ==
    IF i > Len(s) THEN 0
    ELSE IF s[i] = sep THEN i
    ELSE findFrom(s, sep, i + 1)

find(s, sep) == findFrom(s, sep, 1)

\* ---------------------------------------------------------------- parser

\* the key synonyms of the labelled format; the "k_" characters are the
\* Cyrillic letters of the source's keys
FioKeys ==
    { <<"f", "i", "o">>,
      <<"k_f", "k_i", "k_o">>,
      <<"k_f", "k_a", "k_m", "k_i", "k_l", "k_i", "k_ya", " ", "k_i", "k_m", "k_ya">>,
      <<"k_i", "k_m", "k_ya", " ", "k_f", "k_a", "k_m", "k_i", "k_l", "k_i", "k_ya">> }

YearKeys ==
    { <<"y", "e", "a", "r">>,
      <<"k_g", "k_o", "k_d">>,
      <<"k_g", "k_o", "k_d", " ", "k_v", "k_y", "k_p", "k_u", "k_s", "k_k", "k_a">> }

ClassKeys ==
    { <<"c", "l", "a", "s", "s">>,
      <<"k_k", "k_l", "k_a", "k_s", "k_s">>,
      <<"k_g", "k_r", "k_u", "k_p", "k_p", "k_a">> }

\* data.get(k) after the loop over the lines: the value of the last line
\* whose key is one of keys, None when no line has such a key
RECURSIVE labeled_value(_, _, _)
labeled_value(lines, keys, cur) ==
    IF lines = <<>> THEN cur
    ELSE LET line == strip(Head(lines))
             i    == find(line, ":")
         IN  IF i # 0 /\ lower(strip(SubSeq(line, 1, i - 1))) \in keys
             THEN labeled_value(Tail(lines), keys,
                                strip(SubSeq(line, i + 1, Len(line))))
             ELSE labeled_value(Tail(lines), keys, cur)

\* the loop of the freeform format over the tokens
RECURSIVE freeform_scan(_, _)
freeform_scan(parts, acc) ==
    IF parts = <<>> \/ acc.raises THEN acc
    ELSE LET part == Head(parts)
             rest == Tail(parts)
         IN  IF isdigit(part)
             THEN IF Len(part) = 4
                  THEN IF int_raises(part)
                       THEN [acc EXCEPT !.raises = TRUE]
                       ELSE IF 1950 <= int(part) /\ int(part) <= 2030
                            THEN freeform_scan(rest, [acc EXCEPT !.year = part])
                            ELSE freeform_scan(rest,
                                   [acc EXCEPT !.names = Append(@, part)])
                  ELSE IF Len(part) \in {1, 2}
                       THEN IF int_raises(part)
                            THEN [acc EXCEPT !.raises = TRUE]
                            ELSE IF 1 <= int(part) /\ int(part) <= 11
                                 THEN freeform_scan(rest,
                                        [acc EXCEPT !.klass = part])
                                 ELSE freeform_scan(rest,
                                        [acc EXCEPT !.names = Append(@, part)])
                       ELSE freeform_scan(rest,
                              [acc EXCEPT !.names = Append(@, part)])
             ELSE freeform_scan(rest, [acc EXCEPT !.names = Append(@, part)])

Incomplete == [raises |-> FALSE, fio |-> None, year |-> None, klass |-> None]

\* parse_text(text): the triple (fio, year, klass), all None when the text is
\* incomplete; raises is the ValueError of int() on a token of digits that
\* are not ASCII digits
parse_text(text) ==
    IF text = <<>> THEN Incomplete
    ELSE LET lines == split_sep(text, "\n")
             dfio  == labeled_value(lines, FioKeys, None)
             dyear == labeled_value(lines, YearKeys, None)
             dkl   == labeled_value(lines, ClassKeys, None)
             parts == split(strip(text))
             scan  == freeform_scan(parts,
                        [raises |-> FALSE, year |-> None, klass |-> None,
                         names |-> <<>>])
         IN  IF dfio # None /\ dyear # None /\ dkl # None
             THEN [raises |-> FALSE, fio |-> dfio, year |-> dyear, klass |-> dkl]
             ELSE IF Len(parts) >= 3
                  THEN IF scan.raises
                       THEN [Incomplete EXCEPT !.raises = TRUE]
                       ELSE IF scan.year # None /\ scan.klass # None
                               /\ Len(scan.names) >= 2
                            THEN [raises |-> FALSE, fio |-> join(scan.names),
                                  year |-> scan.year, klass |-> scan.klass]
                            ELSE Incomplete
                  ELSE Incomplete

\* "fio and year and klass" of a parse result
parse_complete(p) == p.fio # None /\ p.year # None /\ p.klass # None

\* ------------------------------------------------------- name normalizer

\* norm(s) of normalize_fio
norm(s) == replace_yo(lower(strip(s)))

\* normalize_fio(raw_fio): the set of the first two normalized tokens
normalize_fio(raw_fio) ==
    IF raw_fio = None THEN {}
    ELSE LET parts == split(strip(raw_fio))
         IN  {norm(parts[i]) : i \in 1..(IF Len(parts) < 2 THEN Len(parts) ELSE 2)}

\* --------------------------------------------------------- roster matcher

\* format_for_db returns None
DbNone == -1

\* format_for_db(value, "year" | "class")
format_for_db(value) == IF int_raises(value) THEN DbNone ELSE int(value)

\* the rows of the roster table
Roster ==
    { [fio |-> <<"a", "b", " ", "c", "d">>, year |-> 2010, klass |-> 2],
      [fio |-> <<"c", "d", " ", "a", "b", " ", "e", "f">>,
       year |-> 2011, klass |-> 3] }

\* the rows of the year, of whatever class
select_fio_any_class(year, klass) ==
    {row.fio : row \in {r \in Roster : r.year = year}}

\* SELECT fio FROM table WHERE year = %s AND klass = %s
select_fio(year, klass) ==
    {row.fio : row \in {r \in Roster : r.year = year /\ r.klass = klass}}

\* the early returns without the test of the normalized name
check_user_queries_unnormalized(fio, year, klass) ==
    /\ fio # None /\ year # None /\ klass # None
    /\ format_for_db(year) # DbNone
    /\ format_for_db(klass) # DbNone

\* check_user reaches its query: every early return is passed
check_user_queries(fio, year, klass) ==
    /\ fio # None /\ year # None /\ klass # None
    /\ normalize_fio(fio) # {}
    /\ format_for_db(year) # DbNone
    /\ format_for_db(klass) # DbNone

\* the loop over the rows finds a match
rows_match(fio, year, klass) ==
    LET fio_set == normalize_fio(fio)
    IN  \E db_fio \in select_fio(format_for_db(year), format_for_db(klass)) :
            LET db_fio_set == normalize_fio(db_fio)
            IN  fio_set \subseteq db_fio_set \/ db_fio_set \subseteq fio_set

\* a failure of the store not caught: the rows decide as if it answered
check_user_ignores_failure(fio, year, klass, db_up) ==
    /\ check_user_queries(fio, year, klass)
    /\ rows_match(fio, year, klass)

\* check_user(fio, year, klass); db_up: the store answers the query
check_user(fio, year, klass, db_up) ==
    /\ check_user_queries(fio, year, klass)
    /\ db_up
    /\ rows_match(fio, year, klass)

\* what a call of check_user does to the store: nothing before the early
\* returns are passed, then the query, which raises when the store is down
lookup_acts(fio, year, klass, db_up) ==
    IF ~check_user_queries(fio, year, klass) THEN {}
    ELSE IF db_up THEN {"query"}
    ELSE {"query", "db_error"}

\* ----------------------------------------------------------------- state

\* the Telegram users that write to the bot
Users == {1, 2}

\* Config.ADMIN_ID, the default of get_env_var("ADMIN_ID", 0, int)
ADMIN_ID == 0

\* the most handlers in flight at once when updates are dispatched
\* concurrently
MaxTasks == 2

T_start  == <<"/", "s", "t", "a", "r", "t">>
T_cancel == <<"/", "c", "a", "n", "c", "e", "l">>
T_name   == <<"a", "b", " ", "c", "d">>
T_claim  == <<"c", "d", " ", "A", "b", " ", "2", "0", "1", "0", " ", "2">>
T_other  == <<"e", "f", " ", "a", "b", " ", "2", "0", "1", "0", " ", "2">>
T_year   == <<"2", "0", "1", "0">>
T_class  == <<"2">>
T_sup    == <<"sup2">>
T_raise  == <<"a", "b", " ", "c", "d", " ", "sup2">>

\* the texts of the direct messages
Texts == {T_start, T_cancel, T_name, T_claim, T_other, T_year, T_class, T_sup}

\* the bios of the join requests; None: the request carries no bio
Bios == {None, T_name, T_claim, T_other, T_raise}

VARIABLES
    verified_users,  \* the global set verified_users
    user_states,     \* the global dict user_states: user id -> state
    tasks,           \* the handlers: slot -> the handler running in it
    pending,         \* the users with a join request the chat has not answered
    ever_matched,    \* the users a direct message of whom ended in a match
    wl_approvals     \* user -> whitelist approvals since the last add

vars == <<verified_users, user_states, tasks, pending, ever_matched,
          wl_approvals>>

IdleTask ==
    [kind |-> "idle", user |-> 0, text |-> <<>>, pc |-> "idle",
     wl |-> FALSE, acts |-> {}]

NoData == [fio |-> None, year |-> None, class |-> None, teacher |-> None]

\* verified_users = set(); user_states = {}; updates are dispatched one at
\* a time (the Application is built without concurrent_updates)
Init ==
    /\ verified_users = {}
    /\ user_states = [u \in {} |-> 0]
    /\ tasks = [t \in 1..1 |-> IdleTask]
    /\ pending = {}
    /\ ever_matched = {}
    /\ wl_approvals = [u \in Users |-> 0]

\* the same state, with up to MaxTasks handlers in flight
InitConc ==
    /\ verified_users = {}
    /\ user_states = [u \in {} |-> 0]
    /\ tasks = [t \in 1..MaxTasks |-> IdleTask]
    /\ pending = {}
    /\ ever_matched = {}
    /\ wl_approvals = [u \in Users |-> 0]

\* a slot is free when no handler runs in it
Free(t) == tasks[t].pc \in {"idle", "done"}

\* the slot a new update is dispatched to
NextSlot(t) == Free(t) /\ \A s \in DOMAIN tasks : s < t => ~Free(s)

\* the handler of slot t returns, having performed acts
Finish(t, acts) ==
    [tasks EXCEPT ![t].pc = "done", ![t].acts = @ \cup acts]

\* the handler of slot t suspends at an await, with pc its resumption point
Suspend(t, pc, acts) ==
    [tasks EXCEPT ![t].pc = pc, ![t].acts = @ \cup acts]

\* every state deleted
del_state_all(u) == [v \in {} |-> 0]

\* del user_states[user_id]
del_state(u) == [v \in DOMAIN user_states \ {u} |-> user_states[v]]

\* user_states[user_id] = value
set_state(u, value) ==
    [v \in DOMAIN user_states \cup {u} |->
        IF v = u THEN value ELSE user_states[v]]

\* what telegram_app.bot.get_chat and check_user_names give: the names are
\* clean, hold a forbidden word, or get_chat raised
NameChecks == {"ok", "forbidden", "error"}

\* what the write-back of in_chat gives: done, the store raised, or
\* get_chat raised before the store was reached
WriteBacks == {"ok", "db_fail", "chat_fail"}

\* ---------------------------------------------------- handle_join_request

\* the whitelist test always passing
in_whitelist_always(u) == TRUE

\* "if user_id in verified_users"
in_whitelist(u) == u \in verified_users

\* the discard forgotten
wl_discard_forgotten(u) == verified_users

\* verified_users.discard(user_id)
wl_discard(u) == verified_users \ {u}

\* the user discarded although the approval failed
wl_failed_discards(u) == verified_users \ {u}

\* "except Exception" of the whitelist branch: the discard after the failed
\* call is skipped
wl_failed(u) == verified_users

\* "if not bio"
no_bio(bio) == bio = None

\* a join request of user u with the given bio arrives and its handler runs
\* to its first await, the notification of the admin
JoinRequest(t, u, bio) ==
    /\ NextSlot(t)
    /\ tasks' = [tasks EXCEPT ![t] =
                    [kind |-> "join", user |-> u, text |-> bio,
                     pc |-> "jr_check", wl |-> FALSE, acts |-> {}]]
    /\ pending' = pending \cup {u}
    /\ UNCHANGED <<verified_users, user_states, ever_matched, wl_approvals>>

\* an incomplete bio sent to check_user instead of being declined
join_by_bio_undeclined(t, bio, db_up) ==
    LET p == parse_text(bio)
    IN  IF no_bio(bio)
        THEN Finish(t, {})
        ELSE IF p.raises
        THEN Finish(t, {"parse", "ValueError", "msg_error"})
        ELSE IF check_user(p.fio, p.year, p.klass, db_up)
        THEN Suspend(t, "jr_approve", {"parse", "query", "match", "approve"})
        ELSE Finish(t, {"parse", "msg_notfound"}
                       \cup lookup_acts(p.fio, p.year, p.klass, db_up))

\* what the handler does with a request that is not whitelisted, up to its
\* next await: the bio test, parse_text and check_user
join_by_bio(t, bio, db_up) ==
    LET p == parse_text(bio)
    IN  IF no_bio(bio)
        THEN Finish(t, {})
        ELSE IF p.raises
        THEN Finish(t, {"parse", "ValueError", "msg_error"})
        ELSE IF ~parse_complete(p)
        THEN Suspend(t, "jr_decline", {"parse", "decline"})
        ELSE IF check_user(p.fio, p.year, p.klass, db_up)
        THEN Suspend(t, "jr_approve", {"parse", "query", "match", "approve"})
        ELSE Finish(t, {"parse", "msg_notfound"}
                       \cup lookup_acts(p.fio, p.year, p.klass, db_up))

\* the handler resumes after the notifications: the whitelist test and,
\* for a user not whitelisted, the handling by bio
JoinCheck(t) ==
    LET u == tasks[t].user
    IN  /\ tasks[t].pc = "jr_check"
        /\ \E db_up \in BOOLEAN :
             tasks' = [(IF in_whitelist(u)
                        THEN Suspend(t, "jr_wl_approve", {"approve"})
                        ELSE join_by_bio(t, tasks[t].text, db_up))
                       EXCEPT ![t].wl = (u \in verified_users)]
        /\ UNCHANGED <<verified_users, user_states, pending, ever_matched,
                       wl_approvals>>

\* approve_chat_join_request returns to the whitelist branch: the user is
\* discarded after an approval; after an error the user is told
JoinWlReturn(t) ==
    LET u == tasks[t].user
    IN  /\ tasks[t].pc = "jr_wl_approve"
        /\ \E ok \in BOOLEAN :
             IF ok
             THEN /\ verified_users' = wl_discard(u)
                  /\ pending' = pending \ {u}
                  /\ wl_approvals' = [wl_approvals EXCEPT ![u] = @ + 1]
                  /\ tasks' = Finish(t, {"approved"})
             ELSE /\ verified_users' = wl_failed(u)
                  /\ tasks' = Finish(t, {"msg_error"})
                  /\ UNCHANGED <<pending, wl_approvals>>
        /\ UNCHANGED <<user_states, ever_matched>>

\* decline_chat_join_request returns: the message about the incomplete data
\* follows a decline, and nothing follows an error
JoinDeclineReturn(t) ==
    LET u == tasks[t].user
    IN  /\ tasks[t].pc = "jr_decline"
        /\ \E ok \in BOOLEAN :
             IF ok
             THEN /\ pending' = pending \ {u}
                  /\ tasks' = Finish(t, {"declined", "msg_incomplete"})
             ELSE /\ tasks' = Finish(t, {})
                  /\ UNCHANGED pending
        /\ UNCHANGED <<verified_users, user_states, ever_matched,
                       wl_approvals>>

\* approve_chat_join_request returns to the branch of a matched bio: the
\* write-back of in_chat, the message to the user, the note to the admin
JoinApproveReturn(t) ==
    LET u == tasks[t].user
    IN  /\ tasks[t].pc = "jr_approve"
        /\ \E ok \in BOOLEAN, wb \in {"ok", "db_fail"} :
             IF ok
             THEN /\ pending' = pending \ {u}
                  /\ tasks' = Finish(t, {"approved", "msg_success"}
                                \cup (IF wb = "ok" THEN {"writeback"} ELSE {}))
             ELSE /\ tasks' = Finish(t, {"msg_error"})
                  /\ UNCHANGED pending
        /\ UNCHANGED <<verified_users, user_states, ever_matched,
                       wl_approvals>>

\* ------------------------------------------------- handle_private_message

\* what a stretch of a handler between two awaits gives: pc, where the
\* handler goes on ("done": it returns); op, what it does to
\* user_states[user_id] ("none", "del", or "set" to state); match, whether
\* check_user returned True; add, whether verified_users.add ran; acts,
\* what it did besides
Result(pc, op, state, match, add, acts) ==
    [pc |-> pc, op |-> op, state |-> state, match |-> match, add |-> add,
     acts |-> acts]

\* a stretch that touches neither collection
Plain(pc, acts) == Result(pc, "none", NoData, FALSE, FALSE, acts)

\* the test of the state skipped
step_routed_never(u) == FALSE

\* "if user_id in user_states"
step_routed(u) == u \in DOMAIN user_states

\* what follows verified_users.add in handle_private_message: get_chat
\* raising leaves tg_username_val unbound, and the except clause that logs
\* it raises out of the handler; a store error is logged and passed
pm_after_add(wb) ==
    CASE wb = "ok" -> {"writeback", "msg_success"}
      [] wb = "db_fail" -> {"msg_success"}
      [] OTHER -> {"NameError"}

\* the branch of handle_private_message for a text that parses
private_claim(p, db_up, wb) ==
    LET m == check_user(p.fio, p.year, p.klass, db_up)
        q == {"parse"} \cup lookup_acts(p.fio, p.year, p.klass, db_up)
    IN  IF m
        THEN Result("done", "none", NoData, TRUE, TRUE,
                    q \cup {"match"} \cup pm_after_add(wb))
        ELSE Result("done", "none", NoData, FALSE, FALSE,
                    q \cup {"msg_notfound"})

\* handle_private_message from the return of get_chat to the next await
handle_private_message(u, text, names, db_up, wb) ==
    LET s          == strip(text)
        name_parts == split(s)
        p          == parse_text(text)
    IN  IF names = "forbidden"
        THEN Plain("done", {"msg_forbidden"})
        ELSE IF step_routed(u)
        THEN Plain("step_names", {})
        ELSE IF lower(s) = T_start
        THEN Plain("start_names", {})
        ELSE IF Len(name_parts) = 2
                /\ \A i \in 1..Len(name_parts) : isalpha(name_parts[i])
        THEN Plain("start_names", {})
        ELSE IF p.raises
        THEN Plain("done", {"parse", "ValueError"})
        ELSE IF p.fio = None
        THEN Plain("done", {"parse", "msg_instruction"})
        ELSE IF parse_complete(p)
        THEN private_claim(p, db_up, wb)
        ELSE Plain("done", {"parse", "msg_incomplete_data"})

\* a stretch of the handler in slot t of user u takes effect
Apply(t, u, r) ==
    /\ user_states' = CASE r.op = "del" -> del_state(u)
                        [] r.op = "set" -> set_state(u, r.state)
                        [] OTHER -> user_states
    /\ verified_users' = IF r.add THEN verified_users \cup {u}
                         ELSE verified_users
    /\ ever_matched' = IF r.match THEN ever_matched \cup {u} ELSE ever_matched
    /\ wl_approvals' = IF r.add THEN [wl_approvals EXCEPT ![u] = 0]
                       ELSE wl_approvals
    /\ tasks' = IF r.pc = "done" THEN Finish(t, r.acts)
                ELSE Suspend(t, r.pc, r.acts)
    /\ UNCHANGED pending

\* a direct message of user u arrives and its handler runs to its first
\* await: the admin's /start is answered at once
PrivateMessage(t, u, text) ==
    /\ NextSlot(t)
    /\ tasks' = [tasks EXCEPT ![t] =
                    [kind |-> "pm", user |-> u, text |-> text,
                     pc |-> IF u = ADMIN_ID /\ lower(strip(text)) = T_start
                            THEN "done" ELSE "pm_names",
                     wl |-> FALSE,
                     acts |-> IF u = ADMIN_ID /\ lower(strip(text)) = T_start
                              THEN {"msg_admin"} ELSE {}]]
    /\ UNCHANGED <<verified_users, user_states, pending, ever_matched,
                   wl_approvals>>

\* get_chat returns to handle_private_message
PmNames(t) ==
    /\ tasks[t].pc = "pm_names"
    /\ \E names \in NameChecks, db_up \in BOOLEAN, wb \in WriteBacks :
         Apply(t, tasks[t].user,
               handle_private_message(tasks[t].user, tasks[t].text,
                                      names, db_up, wb))

\* --------------------------------------------------------- start_step_input

NewState == [step |-> "waiting_name", data |-> NoData]

\* start_step_input from the return of get_chat
start_step_input(names) ==
    IF names = "forbidden"
    THEN Plain("done", {"msg_forbidden"})
    ELSE Result("done", "set", NewState, FALSE, FALSE, {"msg_start"})

\* get_chat returns to start_step_input
StartNames(t) ==
    /\ tasks[t].pc = "start_names"
    /\ \E names \in NameChecks :
         Apply(t, tasks[t].user, start_step_input(names))

\* --------------------------------------------------------- handle_step_input

\* what follows verified_users.add in handle_step_input: the NameError of
\* the except clause is caught by the handler's own except, which sends
\* nothing
step_after_add(wb) ==
    CASE wb = "ok" -> {"writeback", "msg_success"}
      [] wb = "db_fail" -> {"msg_success"}
      [] OTHER -> {"NameError"}

\* one token taken as a name
step_name_one_token(state, text) ==
    IF Len(split(strip(text))) >= 1
    THEN Result("done", "set",
                [step |-> "waiting_year",
                 data |-> [state.data EXCEPT !.fio = strip(text)]],
                FALSE, FALSE, {"msg_ask_year"})
    ELSE Plain("done", {"msg_again"})

\* the step waiting_name
step_name(state, text) ==
    IF Len(split(strip(text))) >= 2
    THEN Result("done", "set",
                [step |-> "waiting_year",
                 data |-> [state.data EXCEPT !.fio = strip(text)]],
                FALSE, FALSE, {"msg_ask_year"})
    ELSE Plain("done", {"msg_again"})

\* any number taken as a year
step_year_any_number(state, text) ==
    IF ~isdigit(strip(text))
    THEN Plain("done", {"msg_again"})
    ELSE IF int_raises(strip(text))
    THEN Result("done", "del", NoData, FALSE, FALSE, {"ValueError"})
    ELSE Result("done", "set",
                [step |-> "waiting_class",
                 data |-> [state.data EXCEPT !.year = strip(text)]],
                FALSE, FALSE, {"msg_ask_class"})

\* a valid year taking the state straight to waiting_teacher
step_year_skips_class(state, text) ==
    IF ~isdigit(strip(text))
    THEN Plain("done", {"msg_again"})
    ELSE IF int_raises(strip(text))
    THEN Result("done", "del", NoData, FALSE, FALSE, {"ValueError"})
    ELSE IF 1950 <= int(strip(text)) /\ int(strip(text)) <= 2030
    THEN Result("done", "set",
                [step |-> "waiting_teacher",
                 data |-> [state.data EXCEPT !.year = strip(text)]],
                FALSE, FALSE, {"msg_ask_teacher"})
    ELSE Plain("done", {"msg_again"})

\* the step waiting_year; int() raising ends in the handler's except, which
\* deletes the state
step_year(state, text) ==
    IF ~isdigit(strip(text))
    THEN Plain("done", {"msg_again"})
    ELSE IF int_raises(strip(text))
    THEN Result("done", "del", NoData, FALSE, FALSE, {"ValueError"})
    ELSE IF 1950 <= int(strip(text)) /\ int(strip(text)) <= 2030
    THEN Result("done", "set",
                [step |-> "waiting_class",
                 data |-> [state.data EXCEPT !.year = strip(text)]],
                FALSE, FALSE, {"msg_ask_class"})
    ELSE Plain("done", {"msg_again"})

\* no class taken: every text is answered with the prompt
step_class_never_accepts(state, text) == Plain("done", {"msg_again"})

\* the state kept when int() raises
step_class_error_keeps(state, text) ==
    IF ~isdigit(strip(text))
    THEN Plain("done", {"msg_again"})
    ELSE IF int_raises(strip(text))
    THEN Plain("done", {"ValueError"})
    ELSE IF 1 <= int(strip(text)) /\ int(strip(text)) <= 11
    THEN Result("done", "set",
                [step |-> "waiting_teacher",
                 data |-> [state.data EXCEPT !.class = strip(text)]],
                FALSE, FALSE, {"msg_ask_teacher"})
    ELSE Plain("done", {"msg_again"})

\* the step waiting_class
step_class(state, text) ==
    IF ~isdigit(strip(text))
    THEN Plain("done", {"msg_again"})
    ELSE IF int_raises(strip(text))
    THEN Result("done", "del", NoData, FALSE, FALSE, {"ValueError"})
    ELSE IF 1 <= int(strip(text)) /\ int(strip(text)) <= 11
    THEN Result("done", "set",
                [step |-> "waiting_teacher",
                 data |-> [state.data EXCEPT !.class = strip(text)]],
                FALSE, FALSE, {"msg_ask_teacher"})
    ELSE Plain("done", {"msg_again"})

\* the user added whatever check_user returns
step_teacher_adds_always(state, text, db_up, wb) ==
    LET fio   == state.data.fio
        year  == state.data.year
        klass == state.data.class
        m     == check_user(fio, year, klass, db_up)
    IN  Result("done", "del", NoData, m, TRUE,
               {"check_user", "msg_success"}
               \cup (IF m THEN {"match"} ELSE {}))

\* the state kept when check_user finds nothing
step_teacher_keeps_state(state, text, db_up, wb) ==
    LET fio   == state.data.fio
        year  == state.data.year
        klass == state.data.class
        m     == check_user(fio, year, klass, db_up)
        q     == {"check_user"} \cup lookup_acts(fio, year, klass, db_up)
    IN  IF m
        THEN Result("done", "del", NoData, TRUE, TRUE,
                    q \cup {"match"} \cup step_after_add(wb))
        ELSE Result("done", "none", NoData, FALSE, FALSE,
                    q \cup {"msg_notfound"})

\* the step waiting_teacher: the state is deleted, then check_user decides
step_teacher(state, text, db_up, wb) ==
    LET fio   == state.data.fio
        year  == state.data.year
        klass == state.data.class
        m     == check_user(fio, year, klass, db_up)
        q     == {"check_user"} \cup lookup_acts(fio, year, klass, db_up)
    IN  IF m
        THEN Result("done", "del", NoData, TRUE, TRUE,
                    q \cup {"match"} \cup step_after_add(wb))
        ELSE Result("done", "del", NoData, FALSE, FALSE,
                    q \cup {"msg_notfound"})

\* /cancel honoured at the first three steps only
handle_step_input_cancel_late(u, text, names, db_up, wb) ==
    IF u \notin DOMAIN user_states
    THEN Plain("done", {"KeyError"})
    ELSE LET state == user_states[u]
         IN  IF names = "forbidden"
             THEN Result("done", "del", NoData, FALSE, FALSE,
                         {"msg_forbidden"})
             ELSE IF state.step = "waiting_teacher"
             THEN step_teacher(state, text, db_up, wb)
             ELSE IF lower(strip(text)) = T_cancel
             THEN Result("done", "del", NoData, FALSE, FALSE, {"msg_cancel"})
             ELSE CASE state.step = "waiting_name" -> step_name(state, text)
                    [] state.step = "waiting_year" -> step_year(state, text)
                    [] OTHER -> step_class(state, text)

\* handle_step_input from the return of get_chat; a missing state is the
\* KeyError of del or of user_states[user_id], caught by the handler's
\* except, which sends nothing
handle_step_input(u, text, names, db_up, wb) ==
    IF u \notin DOMAIN user_states
    THEN Plain("done", {"KeyError"})
    ELSE LET state == user_states[u]
         IN  IF names = "forbidden"
             THEN Result("done", "del", NoData, FALSE, FALSE,
                         {"msg_forbidden"})
             ELSE IF lower(strip(text)) = T_cancel
             THEN Result("done", "del", NoData, FALSE, FALSE, {"msg_cancel"})
             ELSE CASE state.step = "waiting_name" -> step_name(state, text)
                    [] state.step = "waiting_year" -> step_year(state, text)
                    [] state.step = "waiting_class" -> step_class(state, text)
                    [] OTHER -> step_teacher(state, text, db_up, wb)

\* get_chat returns to handle_step_input
StepNames(t) ==
    /\ tasks[t].pc = "step_names"
    /\ \E names \in NameChecks, db_up \in BOOLEAN, wb \in WriteBacks :
         Apply(t, tasks[t].user,
               handle_step_input(tasks[t].user, tasks[t].text,
                                 names, db_up, wb))

\* ----------------------------------------------------- handle_callback_query

\* a press of the escalation button: a message to the user and one to the
\* admin, and neither collection is touched
Callback(t, u) ==
    /\ NextSlot(t)
    /\ tasks' = [tasks EXCEPT ![t] =
                    [kind |-> "callback", user |-> u, text |-> <<>>,
                     pc |-> "done", wl |-> FALSE,
                     acts |-> {"msg_admin_help"}]]
    /\ UNCHANGED <<verified_users, user_states, pending, ever_matched,
                   wl_approvals>>

\* ------------------------------------------------------------ specification

\* the updates that arrive
JoinRequestArrives ==
    \E t \in DOMAIN tasks, u \in Users, bio \in Bios : JoinRequest(t, u, bio)

PrivateMessageArrives ==
    \E t \in DOMAIN tasks, u \in Users, text \in Texts :
        PrivateMessage(t, u, text)

CallbackArrives == \E t \in DOMAIN tasks, u \in Users : Callback(t, u)

\* a handler resumes at the await it is suspended at
JoinChecks == \E t \in DOMAIN tasks : JoinCheck(t)

JoinWlReturns == \E t \in DOMAIN tasks : JoinWlReturn(t)

JoinDeclineReturns == \E t \in DOMAIN tasks : JoinDeclineReturn(t)

JoinApproveReturns == \E t \in DOMAIN tasks : JoinApproveReturn(t)

PmNamesReturns == \E t \in DOMAIN tasks : PmNames(t)

StartNamesReturns == \E t \in DOMAIN tasks : StartNames(t)

StepNamesReturns == \E t \in DOMAIN tasks : StepNames(t)

Next ==
    \/ JoinRequestArrives
    \/ PrivateMessageArrives
    \/ CallbackArrives
    \/ JoinChecks
    \/ JoinWlReturns
    \/ JoinDeclineReturns
    \/ JoinApproveReturns
    \/ PmNamesReturns
    \/ StartNamesReturns
    \/ StepNamesReturns

\* updates handled one at a time
Spec == Init /\ [][Next]_vars

\* the updates of the concurrent runs: those of one user
ConcUsers == {1}

ConcTexts == {T_start, T_cancel, T_claim, T_year}

ConcBios == {None, T_name, T_claim}

ConcJoinRequestArrives ==
    \E t \in DOMAIN tasks, u \in ConcUsers, bio \in ConcBios :
        JoinRequest(t, u, bio)

ConcPrivateMessageArrives ==
    \E t \in DOMAIN tasks, u \in ConcUsers, text \in ConcTexts :
        PrivateMessage(t, u, text)

ConcCallbackArrives == \E t \in DOMAIN tasks, u \in ConcUsers : Callback(t, u)

NextConc ==
    \/ ConcJoinRequestArrives
    \/ ConcPrivateMessageArrives
    \/ ConcCallbackArrives
    \/ JoinChecks
    \/ JoinWlReturns
    \/ JoinDeclineReturns
    \/ JoinApproveReturns
    \/ PmNamesReturns
    \/ StartNamesReturns
    \/ StepNamesReturns

\* updates handled concurrently, interleaved at the awaits
SpecConc == InitConc /\ [][NextConc]_vars

\* ------------------------------------------------- check_user on its own

\* the names check_user is called with: None, blanks only, one, two and
\* three tokens, capitals and a doubled blank
MatchNames ==
    { None,
      <<" ", " ">>,
      <<"a", "b">>,
      <<"a", "b", " ", "c", "d">>,
      <<"C", "d", " ", " ", "a", "B">>,
      <<"a", "b", " ", "e", "f">>,
      <<"e", "f", " ", "g", "h">>,
      <<"a", "b", " ", "c", "d", " ", "e", "f">> }

\* the years: None, two years of the roster, a year of no row, a text
\* that is no number, a digit int() does not take
MatchYears ==
    { None, T_year, <<"2", "0", "1", "1">>, <<"1", "9", "9", "9">>,
      <<"2", "0", "1", "x">>, T_sup }

\* the classes: None, two classes of the roster, a leading zero, a text
\* that is no number
MatchClasses == { None, T_class, <<"3">>, <<"0", "2">>, <<"b">> }

\* the orders the tokens of a name can be written in
Perms(fio) ==
    LET parts == split(strip(fio))
    IN  IF parts = <<>> THEN {fio}
        ELSE {join([i \in 1..Len(parts) |-> parts[f[i]]]) :
                  f \in Permutations(1..Len(parts))}

\* a call of check_user(fio, year, klass) is about to be made, and with it
\* the call on the same claim with the tokens of the name in another order
InitMatch ==
    /\ verified_users = {}
    /\ user_states = [u \in {} |-> 0]
    /\ pending = {}
    /\ ever_matched = {}
    /\ wl_approvals = [u \in Users |-> 0]
    /\ \E fio \in MatchNames, year \in MatchYears, klass \in MatchClasses,
          db_up \in BOOLEAN :
          \E perm \in Perms(fio) :
             tasks = [t \in 1..1 |->
                        [kind |-> "check_user", user |-> 0, pc |-> "call",
                         text |-> fio, year |-> year, klass |-> klass,
                         perm |-> perm, db_up |-> db_up, wl |-> FALSE,
                         acts |-> {}, result |-> FALSE,
                         result_perm |-> FALSE]]

\* check_user returns
CheckUserCall(t) ==
    LET c == tasks[t]
    IN  /\ c.kind = "check_user" /\ c.pc = "call"
        /\ tasks' = [tasks EXCEPT
                        ![t].pc = "done",
                        ![t].result = check_user(c.text, c.year, c.klass,
                                                 c.db_up),
                        ![t].result_perm = check_user(c.perm, c.year, c.klass,
                                                      c.db_up),
                        ![t].acts = lookup_acts(c.text, c.year, c.klass,
                                                c.db_up)]
        /\ UNCHANGED <<verified_users, user_states, pending, ever_matched,
                       wl_approvals>>

CheckUserCalls == \E t \in DOMAIN tasks : CheckUserCall(t)

NextMatch == CheckUserCalls

\* check_user called on every claim of the sets above
SpecMatch == InitMatch /\ [][NextMatch]_vars

\* ------------------------------------------------- parse_text on its own

\* the lines of the labelled format: a key of one of the three fields, in
\* either alphabet and with capitals, a colon, a value
LabeledLines ==
    { [field |-> "fio",   key |-> <<"F", "i", "o">>,
       val |-> <<"a", "b", " ", "c", "d">>],
      [field |-> "fio",   key |-> <<"k_f", "k_i", "k_o">>,
       val |-> <<"e", "f", " ", "g", "h">>],
      [field |-> "year",  key |-> <<"y", "e", "a", "r">>,
       val |-> <<"2", "0", "1", "0">>],
      [field |-> "year",  key |-> <<"k_g", "k_o", "k_d">>,
       val |-> <<"2", "0", "1", "1">>],
      [field |-> "class", key |-> <<"C", "l", "a", "s", "s">>,
       val |-> <<"2">>],
      [field |-> "class", key |-> <<"k_g", "k_r", "k_u", "k_p", "k_p", "k_a">>,
       val |-> <<"3">>] }

\* the most lines of a labelled text
MaxLines == 4

\* the tokens of the freeform format: two names, a year and a class in
\* range, a year and a class out of range, a digit int() does not take
FreeTokens ==
    { <<"a", "b">>, <<"C", "d">>, T_year, <<"1", "9", "4", "9">>, T_class,
      <<"1", "2">>, T_sup }

\* the most tokens of a freeform text
MaxTokens == 4

\* the sequences over S of the lengths lo..hi
SeqsOf(S, lo, hi) == UNION {[1..n -> S] : n \in lo..hi}

\* the text of a line: "key: value"
line_text(l) == l.key \o <<":", " ">> \o l.val

\* the lines joined by newlines
RECURSIVE lines_text(_)
lines_text(ls) ==
    IF ls = <<>> THEN <<>>
    ELSE IF Len(ls) = 1 THEN line_text(ls[1])
    ELSE line_text(ls[1]) \o <<"\n">> \o lines_text(Tail(ls))

IdleParse ==
    [kind |-> "parse_text", user |-> 0, pc |-> "call", text |-> <<>>,
     lines |-> <<>>, tokens |-> <<>>, wl |-> FALSE, acts |-> {},
     result |-> Incomplete]

\* a call of parse_text(text) is about to be made, on a text of labelled
\* lines or on a text of freeform tokens
InitParse ==
    /\ verified_users = {}
    /\ user_states = [u \in {} |-> 0]
    /\ pending = {}
    /\ ever_matched = {}
    /\ wl_approvals = [u \in Users |-> 0]
    /\ \/ \E ls \in SeqsOf(LabeledLines, 0, MaxLines) :
             tasks = [t \in 1..1 |->
                        [IdleParse EXCEPT !.text = lines_text(ls),
                                          !.lines = ls]]
       \/ \E ts \in SeqsOf(FreeTokens, 2, MaxTokens) :
             tasks = [t \in 1..1 |->
                        [IdleParse EXCEPT !.text = join(ts), !.tokens = ts]]

\* parse_text returns, or raises
ParseTextCall(t) ==
    /\ tasks[t].kind = "parse_text" /\ tasks[t].pc = "call"
    /\ tasks' = [tasks EXCEPT ![t].pc = "done",
                              ![t].result = parse_text(tasks[t].text)]
    /\ UNCHANGED <<verified_users, user_states, pending, ever_matched,
                   wl_approvals>>

ParseTextCalls == \E t \in DOMAIN tasks : ParseTextCall(t)

NextParse == ParseTextCalls

\* parse_text called on every text of the sets above
SpecParse == InitParse /\ [][NextParse]_vars

\* ------------------------------------------------------------------ claims

\* no handler is in flight
Quiescent == \A t \in DOMAIN tasks : Free(t)

\* the handler in slot t has taken the whitelist test
Checked(t) == tasks[t].kind = "join" /\ tasks[t].pc # "jr_check"

\* the bio of the request in slot t parses to a complete claim
BioComplete(t) ==
    /\ ~parse_text(tasks[t].text).raises
    /\ parse_complete(parse_text(tasks[t].text))

\* the bio of the request in slot t is there and parses to Incomplete
BioIncomplete(t) ==
    /\ tasks[t].text # None
    /\ ~parse_text(tasks[t].text).raises
    /\ ~parse_complete(parse_text(tasks[t].text))

\* the claim of the bio in slot t matches a row of the roster
BioInRoster(t) ==
    LET p == parse_text(tasks[t].text)
    IN  /\ BioComplete(t)
        /\ check_user_queries(p.fio, p.year, p.klass)
        /\ rows_match(p.fio, p.year, p.klass)

\* C1: a handler issues an approve only when it handles a join request and
\* either saw the user in verified_users at its whitelist test or the bio
\* parses to a complete claim that check_user found in the roster.
C1_ApproveOnlyVerifiedOrMatched ==
    \A t \in DOMAIN tasks :
        (tasks[t].acts \cap {"approve", "approved"} # {})
            => /\ tasks[t].kind = "join"
               /\ "approve" \in tasks[t].acts
               /\ \/ tasks[t].wl
                  \/ "match" \in tasks[t].acts /\ BioInRoster(t)

\* a request approved on the whitelist alone, its bio absent
C1_Witness ==
    \E t \in DOMAIN tasks :
        /\ tasks[t].pc = "done" /\ tasks[t].wl
        /\ "approved" \in tasks[t].acts
        /\ tasks[t].text = None

\* the direct-message handler in slot t is at the stretch in which
\* check_user is about to return True for the claim of its own user
MatchedBy(t) ==
    LET u == tasks[t].user
    IN  /\ tasks[t].kind = "pm"
        /\ \/ /\ tasks[t].pc = "pm_names"
              /\ u \notin DOMAIN user_states
              /\ LET p == parse_text(tasks[t].text)
                 IN  /\ ~p.raises /\ parse_complete(p)
                     /\ rows_match(p.fio, p.year, p.klass)
           \/ /\ tasks[t].pc = "step_names"
              /\ u \in DOMAIN user_states
              /\ user_states[u].step = "waiting_teacher"
              /\ rows_match(user_states[u].data.fio, user_states[u].data.year,
                            user_states[u].data.class)

\* C2: a user enters verified_users only in a step in which a
\* direct-message handler of that same user, on free text or at the teacher
\* step, returns with check_user having found the claim in the roster.
C2_VerifiedOnlyByOwnMatch ==
    [][\A u \in Users :
          (u \in verified_users' /\ u \notin verified_users)
              => \E t \in DOMAIN tasks :
                    /\ tasks[t].user = u
                    /\ MatchedBy(t)
                    /\ tasks'[t].pc = "done"
                    /\ "match" \in tasks'[t].acts]_vars

\* a user verified at the teacher step
C2_Witness ==
    \E t \in DOMAIN tasks :
        /\ tasks[t].pc = "done"
        /\ {"check_user", "match"} \subseteq tasks[t].acts
        /\ tasks[t].user \in verified_users

\* C3: a join request of a user seen in verified_users is answered with an
\* approve and nothing else (no parse, no query, no decline); once approved
\* the user is out of verified_users; and no request takes that path while
\* an approval has consumed the entry and no verification has renewed it.
C3_WhitelistApprovesAndConsumes ==
    \A t \in DOMAIN tasks :
        /\ (Checked(t) /\ tasks[t].wl)
              => /\ "approve" \in tasks[t].acts
                 /\ tasks[t].acts \subseteq {"approve", "approved", "msg_error"}
        /\ (tasks[t].pc = "done" /\ tasks[t].wl /\ "approved" \in tasks[t].acts)
              => tasks[t].user \notin verified_users
        /\ (Checked(t) /\ tasks[t].wl /\ "approved" \notin tasks[t].acts)
              => wl_approvals[tasks[t].user] = 0
        /\ (Checked(t) /\ tasks[t].wl)
              => wl_approvals[tasks[t].user] <= 1

\* a second join request of a user whose entry an approval consumed has
\* been handled by its bio
C3_Witness ==
    \E t \in DOMAIN tasks :
        /\ tasks[t].kind = "join" /\ tasks[t].pc = "done"
        /\ ~tasks[t].wl
        /\ wl_approvals[tasks[t].user] = 1
        /\ tasks[t].user \notin verified_users

\* C4 (as claimed): once the join request and the verification of a user
\* have both been handled, in either order, the user's request has been
\* approved, and approved once: a verified user has no request left
\* waiting, and no entry of verified_users has approved two requests.
C4_BothOrdersConverge ==
    \A u \in Users :
        /\ (Quiescent /\ u \in verified_users) => u \notin pending
        /\ wl_approvals[u] <= 1

C7_NoBioDeclined ==
    \A t \in DOMAIN tasks :
        (tasks[t].kind = "join" /\ tasks[t].pc = "done" /\ ~tasks[t].wl
         /\ tasks[t].text = None)
            => "decline" \in tasks[t].acts /\ "query" \notin tasks[t].acts

\* the stretches of the handler of a request with an incomplete bio, the
\* user not in verified_users
IncompleteBioStep(t) ==
    /\ tasks[t].kind = "join"
    /\ BioIncomplete(t)
    /\ \/ tasks[t].pc = "jr_check" /\ tasks[t].user \notin verified_users
       \/ tasks[t].pc = "jr_decline"
    /\ tasks'[t].pc # tasks[t].pc

\* C8: a join request whose bio parses to Incomplete, the user not in
\* verified_users, is answered with a decline; the message to the user
\* follows the decline; check_user is not called; and the handler changes
\* neither verified_users nor user_states.
C8_IncompleteBioDeclined ==
    /\ [](\A t \in DOMAIN tasks :
            (Checked(t) /\ ~tasks[t].wl /\ BioIncomplete(t))
                => /\ "decline" \in tasks[t].acts
                   /\ tasks[t].acts \cap {"query", "match", "approve"} = {}
                   /\ "declined" \in tasks[t].acts
                         => "msg_incomplete" \in tasks[t].acts
                   /\ (tasks[t].pc = "done" /\ "declined" \notin tasks[t].acts)
                         => tasks[t].acts = {"parse", "decline"})
    /\ [][\A t \in DOMAIN tasks :
            IncompleteBioStep(t)
                => /\ verified_users' = verified_users
                   /\ user_states' = user_states]_vars

\* a request with an incomplete bio declined and its user told
C8_Witness ==
    \E t \in DOMAIN tasks :
        /\ tasks[t].kind = "join" /\ tasks[t].pc = "done"
        /\ BioIncomplete(t)
        /\ {"declined", "msg_incomplete"} \subseteq tasks[t].acts

\* C9 (as claimed): a join request with a complete bio of a user not in
\* verified_users is answered with an approve when check_user returns
\* True, and otherwise with a decline and the not-found message.
C9_CompleteBioApprovedOrDeclined ==
    \A t \in DOMAIN tasks :
        (tasks[t].kind = "join" /\ tasks[t].pc = "done" /\ ~tasks[t].wl
         /\ BioComplete(t))
            => IF "match" \in tasks[t].acts
               THEN "approve" \in tasks[t].acts
               ELSE {"decline", "msg_notfound"} \subseteq tasks[t].acts

\* C10 (as claimed): after a /start of a user, whatever state the user had,
\* the user's state is waiting_name with nothing collected.
C10_StartReplacesState ==
    \A t \in DOMAIN tasks :
        (tasks[t].kind = "pm" /\ tasks[t].pc = "done"
         /\ lower(strip(tasks[t].text)) = T_start
         /\ "msg_forbidden" \notin tasks[t].acts)
            => /\ tasks[t].user \in DOMAIN user_states
               /\ user_states[tasks[t].user] = NewState

\* the handler in slot t, of a direct message of a user with a state, is
\* about to resume in handle_step_input
AtStep(t) ==
    /\ tasks[t].kind = "pm"
    /\ tasks[t].pc = "step_names"
    /\ tasks[t].user \in DOMAIN user_states

\* the step taken returns the handler in slot t, the names of the user not
\* having been found to hold a forbidden word
Returns(t) ==
    /\ tasks'[t].pc = "done"
    /\ "msg_forbidden" \notin tasks'[t].acts

\* C11: a /cancel of a user with a state, at whichever step, is passed to
\* handle_step_input, which deletes the state, tells the user, calls
\* neither parse_text nor check_user and leaves verified_users alone; and a
\* message of a user with no state is never passed to handle_step_input.
C11_CancelDestroysState ==
    [][\A t \in DOMAIN tasks :
          LET u == tasks[t].user
          IN  /\ (AtStep(t) /\ lower(strip(tasks[t].text)) = T_cancel
                  /\ Returns(t))
                    => /\ u \notin DOMAIN user_states'
                       /\ verified_users' = verified_users
                       /\ tasks'[t].acts = {"msg_cancel"}
              /\ (tasks[t].kind = "pm" /\ tasks[t].pc = "pm_names"
                  /\ tasks'[t].pc # tasks[t].pc)
                    => /\ (u \notin DOMAIN user_states
                              => tasks'[t].pc # "step_names")
                       /\ (u \in DOMAIN user_states)
                              => \/ tasks'[t].pc = "step_names"
                                 \/ "msg_forbidden" \in tasks'[t].acts]_vars

\* a /cancel has been answered and its user has no state
C11_Witness ==
    \E t \in DOMAIN tasks :
        /\ tasks[t].kind = "pm" /\ tasks[t].pc = "done"
        /\ lower(strip(tasks[t].text)) = T_cancel
        /\ "msg_cancel" \in tasks[t].acts
        /\ tasks[t].user \notin DOMAIN user_states

\* the step that follows a step in the order of the dialogue
Successor(step) ==
    CASE step = "waiting_name" -> "waiting_year"
      [] step = "waiting_year" -> "waiting_class"
      [] step = "waiting_class" -> "waiting_teacher"
      [] OTHER -> "none"

\* C12: the step of a state that stays changes only to the step that
\* follows it in the order waiting_name, waiting_year, waiting_class,
\* waiting_teacher; a state that appears starts at waiting_name; and
\* handle_step_input calls check_user only at waiting_teacher.
C12_StepsOnlyAdvance ==
    [][/\ \A u \in Users :
            /\ (u \in DOMAIN user_states /\ u \in DOMAIN user_states'
                /\ user_states'[u].step # user_states[u].step)
                  => user_states'[u].step = Successor(user_states[u].step)
            /\ (u \notin DOMAIN user_states /\ u \in DOMAIN user_states')
                  => user_states'[u].step = "waiting_name"
       /\ \A t \in DOMAIN tasks :
            (AtStep(t) /\ tasks'[t].pc = "done"
             /\ tasks'[t].acts \cap {"check_user", "query", "match"} # {})
                => user_states[tasks[t].user].step = "waiting_teacher"]_vars

\* a state has been taken through the steps to waiting_teacher
C12_Witness ==
    \E u \in Users :
        /\ u \in DOMAIN user_states
        /\ user_states[u].step = "waiting_teacher"
        /\ user_states[u].data.fio # None
        /\ user_states[u].data.year # None
        /\ user_states[u].data.class # None

\* the handler in slot t is about to resume in handle_step_input for a user
\* at waiting_teacher
AtTeacher(t) ==
    /\ AtStep(t)
    /\ user_states[tasks[t].user].step = "waiting_teacher"

\* C13: at waiting_teacher the handler returns with the state deleted,
\* whatever the text and whatever check_user and the write-back do; any
\* text but /cancel is taken as the teacher, and check_user is called with
\* the fio, year and class the state holds: it queries exactly when they
\* pass its early returns and matches only a row of the roster.
C13_TeacherStepEndsDialogue ==
    [][\A t \in DOMAIN tasks :
          LET u == tasks[t].user
              d == user_states[u].data
          IN  /\ (AtTeacher(t) /\ tasks'[t] # tasks[t])
                    => /\ tasks'[t].pc = "done"
                       /\ u \notin DOMAIN user_states'
              /\ (AtTeacher(t) /\ lower(strip(tasks[t].text)) # T_cancel
                  /\ Returns(t))
                    => /\ "check_user" \in tasks'[t].acts
                       /\ "query" \in tasks'[t].acts
                             <=> check_user_queries(d.fio, d.year, d.class)
                       /\ "match" \in tasks'[t].acts
                             => rows_match(d.fio, d.year, d.class)
                       /\ "match" \notin tasks'[t].acts
                             => "msg_notfound" \in tasks'[t].acts]_vars

\* a teacher step whose write-back failed has ended with the state deleted
C13_Witness ==
    \E t \in DOMAIN tasks :
        /\ tasks[t].kind = "pm" /\ tasks[t].pc = "done"
        /\ {"check_user", "match", "NameError"} \subseteq tasks[t].acts
        /\ tasks[t].user \notin DOMAIN user_states

\* C14: a handler whose call of check_user met a failing store returns in
\* that step with no match: no approve is issued, verified_users is as it
\* was, no exception leaves check_user, and the user is sent the not-found
\* message.
C14_LookupFailureIsNoMatch ==
    [][\A t \in DOMAIN tasks :
          ("db_error" \in tasks'[t].acts /\ tasks'[t] # tasks[t])
              => /\ tasks'[t].pc = "done"
                 /\ tasks'[t].acts \cap {"match", "approve", "approved",
                                         "msg_success", "writeback"} = {}
                 /\ tasks'[t].acts \cap {"NameError", "ValueError",
                                         "KeyError"} = {}
                 /\ "msg_notfound" \in tasks'[t].acts
                 /\ verified_users' = verified_users]_vars

\* a join request whose bio is in the roster has been handled with the
\* store down
C14_Witness ==
    \E t \in DOMAIN tasks :
        /\ tasks[t].kind = "join" /\ tasks[t].pc = "done"
        /\ BioInRoster(t)
        /\ "db_error" \in tasks[t].acts

\* C15 (as claimed): a match whose write-back of in_chat failed counts as
\* no match: the user of the direct message is not in verified_users when
\* the handler has returned, and the join request has not been approved.
C15_WriteBackFailureIsNoMatch ==
    \A t \in DOMAIN tasks :
        (tasks[t].pc = "done" /\ "match" \in tasks[t].acts
         /\ "writeback" \notin tasks[t].acts)
            => /\ tasks[t].kind = "pm"
                     => tasks[t].user \notin verified_users
               /\ tasks[t].kind = "join"
                     => "approved" \notin tasks[t].acts

\* the handler in slot t ran into an exception inside handle_step_input:
\* the ValueError of int() at the year or the class step, the NameError
\* of the write-back at the teacher step, the KeyError of a missing state
StepError(t) ==
    /\ tasks[t].kind = "pm"
    /\ \/ "ValueError" \in tasks[t].acts /\ "parse" \notin tasks[t].acts
       \/ "NameError" \in tasks[t].acts /\ "check_user" \in tasks[t].acts
       \/ "KeyError" \in tasks[t].acts

\* C16: when a handler that ran into an exception inside handle_step_input
\* has returned, its user has no state.
C16_StepErrorDestroysState ==
    \A t \in DOMAIN tasks :
        (tasks[t].pc = "done" /\ StepError(t))
            => tasks[t].user \notin DOMAIN user_states

\* the year or the class step has raised on a digit that int() does not
\* take, and the state of the other user is still there
C16_Witness ==
    \E t \in DOMAIN tasks, u \in Users :
        /\ tasks[t].pc = "done" /\ StepError(t)
        /\ tasks[t].text = T_sup
        /\ tasks[t].user \notin DOMAIN user_states
        /\ u # tasks[t].user /\ u \in DOMAIN user_states

\* C17 (as claimed): a handler that ran into an exception inside
\* handle_step_input has sent its user the message about the error.
C17_StepErrorGetsApology ==
    \A t \in DOMAIN tasks :
        (tasks[t].pc = "done" /\ StepError(t))
            => "msg_error" \in tasks[t].acts

\* the call of check_user in slot t has returned
Called(t) == tasks[t].kind = "check_user" /\ tasks[t].pc = "done"

\* C18: check_user returns False and makes no query when the name, the
\* year or the class is None or empty, when int() raises on the year or on
\* the class, or when the name normalizes to the empty set.
C18_EarlyReturnsMakeNoQuery ==
    \A t \in DOMAIN tasks :
        (/\ Called(t)
         /\ \/ tasks[t].text = None
            \/ tasks[t].year = None
            \/ tasks[t].klass = None
            \/ int_raises(tasks[t].year)
            \/ int_raises(tasks[t].klass)
            \/ normalize_fio(tasks[t].text) = {})
            => /\ tasks[t].result = FALSE
               /\ tasks[t].acts = {}

\* check_user has returned on a name of blanks, the year and the class
\* those of a row and the store up
C18_Witness ==
    \E t \in DOMAIN tasks :
        /\ Called(t)
        /\ tasks[t].text = <<" ", " ">>
        /\ tasks[t].year = T_year /\ tasks[t].klass = T_class
        /\ tasks[t].db_up
        /\ tasks[t].result = FALSE

\* C19: with the store answering, check_user on a claim that passes the
\* early returns is True exactly when a row of the roster has the year and
\* the class of the claim and a normalized name that contains, or is
\* contained in, the normalized name of the claim.
C19_MatchIffContainment ==
    \A t \in DOMAIN tasks :
        (/\ Called(t)
         /\ tasks[t].db_up
         /\ check_user_queries(tasks[t].text, tasks[t].year, tasks[t].klass))
            => (tasks[t].result
                  <=> \E row \in Roster :
                         /\ row.year = int(tasks[t].year)
                         /\ row.klass = int(tasks[t].klass)
                         /\ \/ normalize_fio(tasks[t].text)
                                  \subseteq normalize_fio(row.fio)
                            \/ normalize_fio(row.fio)
                                  \subseteq normalize_fio(tasks[t].text))

\* a one-token name has matched the row of three tokens
C19_Witness ==
    \E t \in DOMAIN tasks :
        /\ Called(t)
        /\ tasks[t].text = <<"a", "b">>
        /\ tasks[t].year = <<"2", "0", "1", "1">>
        /\ tasks[t].klass = <<"3">>
        /\ tasks[t].result = TRUE

\* C20 (as claimed): check_user gives the same result on a claim and on
\* the claim with the tokens of its name in another order.
C20_TokenOrderIrrelevant ==
    \A t \in DOMAIN tasks :
        Called(t) => tasks[t].result = tasks[t].result_perm

\* parse_text has returned in slot t on a text of labelled lines
ParsedLabeled(t) ==
    /\ tasks[t].kind = "parse_text" /\ tasks[t].pc = "done"
    /\ tasks[t].tokens = <<>>

\* parse_text has returned in slot t on a text of freeform tokens
ParsedFree(t) ==
    /\ tasks[t].kind = "parse_text" /\ tasks[t].pc = "done"
    /\ tasks[t].tokens # <<>>

\* the fields the lines have a key of
FieldsOf(ls) == {ls[i].field : i \in 1..Len(ls)}

\* the value of the last line of a field
LastVal(ls, f) ==
    LET I == {i \in 1..Len(ls) : ls[i].field = f}
    IN  ls[CHOOSE i \in I : \A j \in I : j <= i].val

\* C21 (as claimed): on a text of labelled lines parse_text returns the
\* three values when the lines hold a key of each of the three fields, in
\* whatever order and alphabet, and (None, None, None) when a field has no
\* line.
C21_LabeledAllOrNothing ==
    \A t \in DOMAIN tasks :
        ParsedLabeled(t)
            => tasks[t].result =
                  IF FieldsOf(tasks[t].lines) = {"fio", "year", "class"}
                  THEN [raises |-> FALSE,
                        fio    |-> LastVal(tasks[t].lines, "fio"),
                        year   |-> LastVal(tasks[t].lines, "year"),
                        klass  |-> LastVal(tasks[t].lines, "class")]
                  ELSE Incomplete

\* a token the freeform loop takes as the year
YearToken(tok) ==
    /\ Len(tok) = 4 /\ ~int_raises(tok)
    /\ 1950 <= int(tok) /\ int(tok) <= 2030

\* a token the freeform loop takes as the class
ClassToken(tok) ==
    /\ Len(tok) \in {1, 2} /\ ~int_raises(tok)
    /\ 1 <= int(tok) /\ int(tok) <= 11

\* the tokens that are neither
NameTokens(ts) ==
    LET IsName(tok) == ~YearToken(tok) /\ ~ClassToken(tok)
    IN  SelectSeq(ts, IsName)

\* C22: on four tokens of which two are alphabetic, one is a year in
\* 1950..2030 and one a class in 1..11, parse_text returns the two names
\* as written, joined by a blank, with the year and the class; and a
\* freeform text parses only when it has a year token, a class token and
\* at least two other tokens.
C22_FreeformFourTokens ==
    \A t \in DOMAIN tasks :
        LET ts == tasks[t].tokens
            n  == NameTokens(ts)
        IN  ParsedFree(t)
              => /\ (/\ Len(ts) = 4 /\ Len(n) = 2
                     /\ isalpha(n[1]) /\ isalpha(n[2])
                     /\ \E i, j \in 1..4 : YearToken(ts[i]) /\ ClassToken(ts[j]))
                       => \E i, j \in 1..4 :
                             /\ YearToken(ts[i]) /\ ClassToken(ts[j])
                             /\ tasks[t].result =
                                   [raises |-> FALSE,
                                    fio    |-> n[1] \o <<" ">> \o n[2],
                                    year   |-> ts[i],
                                    klass  |-> ts[j]]
                 /\ (~tasks[t].result.raises
                     /\ parse_complete(tasks[t].result))
                       => /\ \E i \in 1..Len(ts) : YearToken(ts[i])
                          /\ \E j \in 1..Len(ts) : ClassToken(ts[j])
                          /\ Len(n) >= 2

\* a name with a capital, written after the class and the year, has been
\* parsed
C22_Witness ==
    \E t \in DOMAIN tasks :
        /\ ParsedFree(t)
        /\ tasks[t].tokens = <<T_class, <<"C", "d">>, T_year, <<"a", "b">>>>
        /\ tasks[t].result.fio = <<"C", "d", " ", "a", "b">>
        /\ tasks[t].result.year = T_year
        /\ tasks[t].result.klass = T_class

\* C23 (as claimed): when handle_private_message has called parse_text on
\* the message of a user with no state and got (None, None, None), the
\* user has a state at waiting_name with nothing collected.
C23_IncompleteStartsDialogue ==
    \A t \in DOMAIN tasks :
        (/\ tasks[t].kind = "pm" /\ tasks[t].pc = "done"
         /\ "parse" \in tasks[t].acts
         /\ parse_text(tasks[t].text) = Incomplete)
            => /\ tasks[t].user \in DOMAIN user_states
               /\ user_states[tasks[t].user] = NewState

\* the state of user v, None when v has none
StateOf(states, v) == IF v \in DOMAIN states THEN states[v] ELSE None

\* C24: a step changes the state or the membership in verified_users of a
\* user only when it is a step of a handler of an update of that user.
C24_OtherUsersUntouched ==
    [][\A v \in Users :
          (\/ StateOf(user_states', v) # StateOf(user_states, v)
           \/ (v \in verified_users') # (v \in verified_users))
              => \E t \in DOMAIN tasks :
                    /\ tasks'[t] # tasks[t]
                    /\ tasks'[t].user = v]_vars

\* a handler of one user has met a failing store or an exception while
\* the other user is verified and has a state
C24_Witness ==
    \E t \in DOMAIN tasks, v \in Users :
        /\ tasks[t].pc = "done"
        /\ tasks[t].user # v
        /\ "db_error" \in tasks[t].acts \/ StepError(t)
        /\ v \in verified_users
        /\ v \in DOMAIN user_states

\* the handler in slot t is about to resume in handle_step_input at the
\* given step, on a text that is not /cancel, and the step taken returns it
StepInput(t, step) ==
    /\ AtStep(t)
    /\ user_states[tasks[t].user].step = step
    /\ lower(strip(tasks[t].text)) # T_cancel
    /\ Returns(t)

\* C25: at waiting_name a text of two or more tokens is stored, stripped,
\* as the name and the step becomes waiting_year; any other text but
\* /cancel changes nothing and is answered with the prompt for the name.
C25_NameStep ==
    [][\A t \in DOMAIN tasks :
          LET u == tasks[t].user
              s == strip(tasks[t].text)
          IN  StepInput(t, "waiting_name")
                => IF Len(split(s)) >= 2
                   THEN /\ user_states' =
                             set_state(u, [step |-> "waiting_year",
                                           data |-> [user_states[u].data
                                                       EXCEPT !.fio = s]])
                        /\ tasks'[t].acts = {"msg_ask_year"}
                   ELSE /\ user_states' = user_states
                        /\ tasks'[t].acts = {"msg_again"}]_vars

\* a text of four tokens has been stored as the name
C25_Witness ==
    \E u \in Users :
        /\ u \in DOMAIN user_states
        /\ user_states[u].step = "waiting_year"
        /\ user_states[u].data.fio = T_claim

\* C26 (as claimed): at waiting_year a text is stored as the year, and the
\* step becomes waiting_class, exactly when it is all digits and its
\* number is in 1950..2030; any other text but /cancel changes nothing
\* and is answered with the prompt for the year.
C26_YearStep ==
    [][\A t \in DOMAIN tasks :
          LET u == tasks[t].user
              s == strip(tasks[t].text)
          IN  StepInput(t, "waiting_year")
                => IF /\ isdigit(s) /\ ~int_raises(s)
                      /\ 1950 <= int(s) /\ int(s) <= 2030
                   THEN /\ user_states' =
                             set_state(u, [step |-> "waiting_class",
                                           data |-> [user_states[u].data
                                                       EXCEPT !.year = s]])
                        /\ tasks'[t].acts = {"msg_ask_class"}
                   ELSE /\ user_states' = user_states
                        /\ tasks'[t].acts = {"msg_again"}]_vars

\* C27 (as claimed): at waiting_class a text is stored as the class, and
\* the step becomes waiting_teacher, exactly when it is all digits and its
\* number is in 1..11; any other text but /cancel changes nothing and is
\* answered with the prompt for the class.
C27_ClassStep ==
    [][\A t \in DOMAIN tasks :
          LET u == tasks[t].user
              s == strip(tasks[t].text)
          IN  StepInput(t, "waiting_class")
                => IF /\ isdigit(s) /\ ~int_raises(s)
                      /\ 1 <= int(s) /\ int(s) <= 11
                   THEN /\ user_states' =
                             set_state(u, [step |-> "waiting_teacher",
                                           data |-> [user_states[u].data
                                                       EXCEPT !.class = s]])
                        /\ tasks'[t].acts = {"msg_ask_teacher"}
                   ELSE /\ user_states' = user_states
                        /\ tasks'[t].acts = {"msg_again"}]_vars

\* a name of two or more tokens
NameOk(fio) == Len(split(fio)) >= 2

\* a year of ASCII digits in 1950..2030
YearOk(year) == ~int_raises(year) /\ 1950 <= int(year) /\ int(year) <= 2030

\* a class of ASCII digits in 1..11
ClassOk(klass) == ~int_raises(klass) /\ 1 <= int(klass) /\ int(klass) <= 11

\* C28: the data of a state is what the steps before its step collected
\* and nothing more: nothing at waiting_name; a name of two or more tokens
\* at waiting_year; also a year in 1950..2030 at waiting_class; also a
\* class in 1..11 at waiting_teacher; the teacher is never kept.
C28_DataFitsStep ==
    \A u \in DOMAIN user_states :
        LET s == user_states[u].step
            d == user_states[u].data
        IN  /\ s \in {"waiting_name", "waiting_year", "waiting_class",
                      "waiting_teacher"}
            /\ d.teacher = None
            /\ IF s = "waiting_name" THEN d.fio = None ELSE NameOk(d.fio)
            /\ IF s \in {"waiting_name", "waiting_year"}
               THEN d.year = None ELSE YearOk(d.year)
            /\ IF s = "waiting_teacher"
               THEN ClassOk(d.class) ELSE d.class = None

\* the two users are in a dialogue, one at waiting_teacher and one at
\* waiting_class
C28_Witness ==
    \E u, v \in DOMAIN user_states :
        /\ user_states[u].step = "waiting_teacher"
        /\ user_states[v].step = "waiting_class"

\* C29: the handler of a direct message of a user with a state goes on in
\* handle_step_input (unless the names are refused) and never calls
\* parse_text; and a user with a state enters verified_users only in the
\* step in which the waiting_teacher step ends with a match.
C29_StateRoutesToSteps ==
    [][/\ \A t \in DOMAIN tasks :
            LET u == tasks[t].user
            IN  (/\ tasks[t].kind = "pm"
                 /\ tasks[t].pc \in {"pm_names", "step_names"}
                 /\ u \in DOMAIN user_states
                 /\ tasks'[t] # tasks[t])
                    => /\ "parse" \notin tasks'[t].acts
                       /\ tasks[t].pc = "pm_names"
                             => /\ \/ tasks'[t].pc = "step_names"
                                   \/ tasks'[t].acts = {"msg_forbidden"}
                                /\ verified_users' = verified_users
       /\ \A u \in Users :
            (/\ u \in DOMAIN user_states
             /\ u \in verified_users' /\ u \notin verified_users)
                => /\ user_states[u].step = "waiting_teacher"
                   /\ \E t \in DOMAIN tasks :
                         /\ tasks[t].user = u /\ AtStep(t)
                         /\ {"check_user", "match"}
                               \subseteq tasks'[t].acts]_vars

\* a text that parses to a claim of the roster has been taken as the input
\* of the name step
C29_Witness ==
    \E t \in DOMAIN tasks :
        /\ tasks[t].kind = "pm" /\ tasks[t].pc = "done"
        /\ tasks[t].text = T_claim
        /\ tasks[t].acts = {"msg_ask_year"}
        /\ tasks[t].user \notin verified_users

\* C30: when approve_chat_join_request fails in the whitelist branch, the
\* user stays in verified_users and is sent the error message, and the
\* handler has neither read the bio nor declined; a user leaves
\* verified_users only in a step in which the whitelist branch approves; and
\* the handler of a join request of a user in verified_users always takes
\* the whitelist branch.
C30_FailedApproveKeepsEntry ==
    [][/\ \A t \in DOMAIN tasks :
            LET u == tasks[t].user
            IN  /\ (/\ tasks[t].pc = "jr_wl_approve"
                     /\ tasks'[t].pc = "done"
                     /\ "approved" \notin tasks'[t].acts)
                        => /\ u \in verified_users
                           /\ verified_users' = verified_users
                           /\ tasks'[t].acts = {"approve", "msg_error"}
                /\ (/\ tasks[t].pc = "jr_check"
                     /\ u \in verified_users
                     /\ tasks'[t] # tasks[t])
                        => /\ tasks'[t].pc = "jr_wl_approve"
                           /\ tasks'[t].acts = {"approve"}
       /\ \A u \in verified_users \ verified_users' :
            \E t \in DOMAIN tasks :
                /\ tasks[t].user = u
                /\ tasks[t].pc = "jr_wl_approve"
                /\ "approved" \in tasks'[t].acts]_vars

\* the approval of a join request of a user in verified_users has failed:
\* the handler has returned after the error message, and the user is still
\* in verified_users
C30_Witness ==
    \E t \in DOMAIN tasks :
        /\ tasks[t].kind = "join" /\ tasks[t].pc = "done"
        /\ tasks[t].wl
        /\ tasks[t].acts = {"approve", "msg_error"}
        /\ tasks[t].user \in verified_users

\* ------------------------------------------------- the dialogue to its end

\* the texts a step takes: "len(name_parts) >= 2", "isdigit() and
\* 1950 <= int(...) <= 2030", "isdigit() and 1 <= int(...) <= 11", and any
\* text at waiting_teacher; /cancel is tested before the steps
ValidInput(step, text) ==
    /\ lower(strip(text)) # T_cancel
    /\ CASE step = "waiting_name" -> NameOk(strip(text))
         [] step = "waiting_year" ->
                isdigit(strip(text)) /\ YearOk(strip(text))
         [] step = "waiting_class" ->
                isdigit(strip(text)) /\ ClassOk(strip(text))
         [] OTHER -> TRUE

\* the updates of the runs to the end of a dialogue: those of one user
LiveUsers == {1}

LiveTexts == {T_start, T_cancel, T_name, T_year, T_class, T_sup}

\* the join requests carry no bio: a user who is not in verified_users is
\* left unanswered, one who is takes the whitelist branch
LiveBios == {None}

LiveJoinRequestArrives ==
    \E t \in DOMAIN tasks, u \in LiveUsers, bio \in LiveBios :
        JoinRequest(t, u, bio)

LivePrivateMessageArrives ==
    \E t \in DOMAIN tasks, u \in LiveUsers, text \in LiveTexts :
        PrivateMessage(t, u, text)

LiveCallbackArrives == \E t \in DOMAIN tasks, u \in LiveUsers : Callback(t, u)

\* user u, who has a state, sends a text that the step of the state takes
SendsValid(u) ==
    /\ u \in DOMAIN user_states
    /\ \E t \in DOMAIN tasks, text \in LiveTexts :
         /\ ValidInput(user_states[u].step, text)
         /\ PrivateMessage(t, u, text)

\* the names of the user pass and handle_private_message hands such a text
\* to handle_step_input
RoutesValid(u) ==
    /\ u \in DOMAIN user_states
    /\ \E t \in DOMAIN tasks :
         /\ tasks[t].kind = "pm" /\ tasks[t].user = u
         /\ ValidInput(user_states[u].step, tasks[t].text)
         /\ PmNames(t)
         /\ tasks'[t].pc = "step_names"

\* get_chat returns to handle_step_input with names that are refused: one
\* of the cases of StepNamesReturns
StepNamesRefuses ==
    \E t \in DOMAIN tasks :
        /\ tasks[t].pc = "step_names"
        /\ Apply(t, tasks[t].user,
                 handle_step_input(tasks[t].user, tasks[t].text,
                                   "forbidden", TRUE, "ok"))

\* an await of a handler returns
HandlerReturns ==
    \/ JoinChecks
    \/ JoinWlReturns
    \/ PmNamesReturns
    \/ StartNamesReturns
    \/ StepNamesRefuses
    \/ StepNamesReturns

NextLive ==
    \/ LiveJoinRequestArrives
    \/ LivePrivateMessageArrives
    \/ LiveCallbackArrives
    \/ HandlerReturns

\* updates handled one at a time; every await returns; and a user with a
\* state sends, again and again, a text that the step of the state takes,
\* and such a text is, again and again, not refused for the user's names
SpecLive ==
    /\ Init
    /\ [][NextLive]_vars
    /\ WF_vars(HandlerReturns)
    /\ \A u \in LiveUsers :
           SF_vars(SendsValid(u)) /\ SF_vars(RoutesValid(u))

\* the texts still to be taken before the state of u in states is gone
Remaining(states, u) ==
    IF u \notin DOMAIN states THEN 0
    ELSE CASE states[u].step = "waiting_name" -> 4
           [] states[u].step = "waiting_year" -> 3
           [] states[u].step = "waiting_class" -> 2
           [] OTHER -> 1

\* at every step some text is taken, whatever the store does
NoStepStuck ==
    \A u \in DOMAIN user_states :
        \E text \in LiveTexts :
            /\ ValidInput(user_states[u].step, text)
            /\ \A names \in {"ok", "error"}, db_up \in BOOLEAN,
                  wb \in WriteBacks :
                  LET r == handle_step_input(u, text, names, db_up, wb)
                  IN  \/ r.op = "del" /\ "check_user" \in r.acts
                      \/ /\ r.op = "set"
                         /\ r.state.step = Successor(user_states[u].step)

\* a text that the step takes brings the state one step nearer to its end,
\* check_user is called exactly by the one that ends it, and nothing sets
\* a state that is there back
TakenTextCounts ==
    /\ \A t \in DOMAIN tasks :
          LET u == tasks[t].user
          IN  (/\ AtStep(t)
               /\ ValidInput(user_states[u].step, tasks[t].text)
               /\ Returns(t))
                  => /\ Remaining(user_states', u)
                          = Remaining(user_states, u) - 1
                     /\ ("check_user" \in tasks'[t].acts)
                          <=> (Remaining(user_states', u) = 0)
    /\ \A u \in DOMAIN user_states :
          Remaining(user_states', u) <= Remaining(user_states, u)

\* C31: a user with a state who keeps sending texts that the step of the
\* state takes ends with no state: each such text brings the state one step
\* nearer to its end, which is at most four texts away, check_user is called
\* by the last of them and by no other, and at every step of every state
\* there is a text that the step takes.
C31_DialogueTerminates ==
    /\ []NoStepStuck
    /\ [][TakenTextCounts]_vars
    /\ \A u \in LiveUsers :
          (u \in DOMAIN user_states) ~> (u \notin DOMAIN user_states)

\* the fourth text of a dialogue has been taken: check_user has been called
\* with the collected claim and the user has no state
C31_Witness ==
    \E t \in DOMAIN tasks :
        /\ tasks[t].kind = "pm" /\ tasks[t].pc = "done"
        /\ tasks[t].text = T_name
        /\ {"check_user", "msg_notfound"} \subseteq tasks[t].acts
        /\ "parse" \notin tasks[t].acts
        /\ tasks[t].user \notin DOMAIN user_states

====
